---------------------------- MODULE Spec2Model ----------------------------
(***************************************************************************)
(* A model of the flow synthesis engine of ft-generator (FlowTest):        *)
(*   - AddressGenerators (Lehmer generator with reseeding),                *)
(*   - Flow: construction of the layer stack, Plan() and its phases,       *)
(*     GenerateNextPacket() / IsFinished(),                                *)
(*   - Flow::MakeIcmpLayer (the ICMP strategy heuristic).                  *)
(*                                                                         *)
(* Floating point comparisons of the source are carried out on exact       *)
(* rationals by cross multiplication; 32-bit unsigned inputs that do not   *)
(* fit the model checker's integers are held as (bit 31, low 31 bits).     *)
(***************************************************************************)
EXTENDS Integers, Naturals, Sequences, FiniteSets, TLC

VARIABLES
    lehmer,      \* [m, a]: modulus and multiplier of the Lehmer generator
    ag,          \* AddressGenerators: [seedState, state, capacity]
    agStatus,    \* "none" | "ok" | "invalid_argument"
    agSeed,      \* the seed handed to the constructor (uint32 as [hi, low])
    agOut,       \* the last address returned: [op, bytes]
    agHist,      \* history: [draws, reseeds, prevSeed]
    profile,     \* FlowProfile the flow is constructed from
    config,      \* config::Config: [variants]
    icmpLayer,   \* the layer MakeIcmpLayer() returned ("none" before the call)
    pc,          \* position of the flow: "new", the phases of Plan(), "Planned", "failed"
    flowError,   \* message of the exception the constructor threw, or "none"
    layerStack,  \* Flow::_layerStack
    packets,     \* Flow::_packets, the packet plans
    emitted,     \* the PacketExtraInfo values GenerateNextPacket() has returned
    throws,      \* number of GenerateNextPacket() calls that threw
    rngStream,   \* output sequence of the shared RandomGenerator for the run's seed
    rngPos,      \* number of values drawn from the shared RandomGenerator
    enginePerm,  \* the permutation std::default_random_engine() shuffles n elements by
    fwdGen,      \* PacketSizeGeneratorSlow of the forward direction
    revGen,      \* PacketSizeGeneratorSlow of the reverse direction
    genDir,      \* the generator Generate() is running on
    gl,          \* local variables of the running Generate()
    idx,         \* position of the running loop over packets or values
    run,         \* 1: first construction, 2: the same construction repeated
    planned,     \* the plan list at the end of Plan(), per run
    pins,        \* the direction each plan is pinned to by an ICMP layer's PlanFlow
    encaps,      \* the last ChooseEncaps() call: [called, layers]
    hookLog,     \* the steps of Plan() in the order they ran: [hook, layer]
    gh           \* history of the running Generate(): what it observed and did

agVars == <<lehmer, ag, agStatus, agSeed, agOut, agHist>>

genVars == <<fwdGen, revGen, genDir, gl, idx, gh>>

flowVars == <<profile, config, icmpLayer, pc, flowError, layerStack, packets, emitted,
              throws, rngStream, rngPos, enginePerm, fwdGen, revGen, genDir, gl, idx,
              run, planned, pins, encaps, hookLog, gh>>

vars == <<lehmer, ag, agStatus, agSeed, agOut, agHist,
          profile, config, icmpLayer, pc, flowError, layerStack, packets, emitted,
          throws, rngStream, rngPos, enginePerm, fwdGen, revGen, genDir, gl, idx,
          run, planned, pins, encaps, hookLog, gh>>

-----------------------------------------------------------------------------
(* Arithmetic helpers                                                       *)

Min(a, b) == IF a < b THEN a ELSE b
Max(a, b) == IF a > b THEN a ELSE b

\* the element of a one-element set
The(S) == CHOOSE x \in S : TRUE

\* (x + y) mod m for x, y in 0..m-1, without leaving 0..2^31-1
AddMod(x, y, m) == IF x >= m - y THEN x - (m - y) ELSE x + y

\* uint64_t(a) * b % m, computed by doubling so that no intermediate value
\* leaves the model checker's integer range (the source computes it in 64 bits)
RECURSIVE MulMod(_, _, _)
MulMod(a, b, m) ==
    IF b = 0 THEN 0
    ELSE The({ AddMod(AddMod(h, h, m), IF b % 2 = 1 THEN a % m ELSE 0, m) :
               h \in { MulMod(a, b \div 2, m) } })

-----------------------------------------------------------------------------
(* AddressGenerators                                                        *)

Modulus == 2147483647
Multiplier == 48271

\* Scaled-down parameter sets (prime modulus, primitive root) on which the
\* period of the generator is short enough to be run through
SmallLehmers == { [m |-> 5, a |-> 2], [m |-> 7, a |-> 3], [m |-> 11, a |-> 2] }

\* x * 48271 % 0x7fffffff
LehmerStep(x, p) == MulMod(x, p.a, p.m)

\* uint32 comparisons on [hi, low]
U32IsZero(s) == s.hi = 0 /\ s.low = 0
U32Geq(s, n) == s.hi = 1 \/ s.low >= n

\* if (seed <= 0 || seed >= 0x7fffffff) throw
SeedRejectedOffByOne(seed, p) ==
    U32IsZero(seed) \/ (U32Geq(seed, p.m) /\ ~(seed.hi = 0 /\ seed.low = p.m))
SeedRejected(seed, p) == U32IsZero(seed) \/ U32Geq(seed, p.m)

NextSeedNoAdvance(g, p) ==
    [seedState |-> g.seedState, state |-> g.seedState, capacity |-> p.m - 1]
NextSeed(g, p) ==
    LET s == LehmerStep(g.seedState, p)
    IN  [seedState |-> s, state |-> s, capacity |-> p.m - 1]

\* one call of NextValue(): the generator afterwards, the value returned and
\* whether the call reseeded
NextValueNeverReseeds(g, p) ==
    LET s == LehmerStep(g.state, p)
    IN  [g |-> [g EXCEPT !.capacity = IF g.capacity = 0 THEN p.m - 2 ELSE g.capacity - 1,
                         !.state = s],
         value |-> s, reseeded |-> g.capacity = 0]
NextValue(g, p) ==
    LET g1 == IF g.capacity = 0 THEN NextSeed(g, p) ELSE g
        s  == LehmerStep(g1.state, p)
    IN  [g |-> [g1 EXCEPT !.capacity = g1.capacity - 1, !.state = s],
         value |-> s, reseeded |-> g.capacity = 0]

\* n consecutive calls of NextValue(): [g, values, reseeds, prevSeed]
RECURSIVE NextValues(_, _, _, _)
NextValues(g, p, n, prev) ==
    IF n = 0 THEN [g |-> g, values |-> <<>>, reseeds |-> 0, prevSeed |-> prev]
    ELSE The({ The({ [g |-> rest.g, values |-> <<r.value>> \o rest.values,
                      reseeds |-> (IF r.reseeded THEN 1 ELSE 0) + rest.reseeds,
                      prevSeed |-> rest.prevSeed] :
                     rest \in { NextValues(r.g, p, n - 1,
                                           IF r.reseeded THEN g.seedState ELSE prev) } }) :
               r \in { NextValue(g, p) } })

\* uint8_t((value >> k) & 0xFF)
Byte(value, k) == (value \div (2 ^ k)) % 256

Bytes4(v) == << Byte(v, 24), Byte(v, 16), Byte(v, 8), Byte(v, 0) >>

MacBytes(vs) == Bytes4(vs[1]) \o << Byte(vs[2], 24), Byte(vs[2], 16) >>
IPv4Bytes(vs) == Bytes4(vs[1])
IPv6Bytes(vs) == Bytes4(vs[1]) \o Bytes4(vs[2]) \o Bytes4(vs[3]) \o Bytes4(vs[4])

MaxDraws == 24

NoGen == [seedState |-> 0, state |-> 0, capacity |-> 0]
NoHist == [draws |-> 0, reseeds |-> 0, prevSeed |-> 0]
NoOut == [op |-> "none", bytes |-> <<>>]

\* AddressGenerators::AddressGenerators(seed)
AgConstruct ==
    /\ agStatus = "none"
    /\ IF SeedRejected(agSeed, lehmer)
       THEN /\ agStatus' = "invalid_argument"
            /\ ag' = ag
       ELSE /\ agStatus' = "ok"
            /\ ag' = NextSeed([NoGen EXCEPT !.seedState = agSeed.low], lehmer)
    /\ UNCHANGED <<lehmer, agSeed, agOut, agHist>>
    /\ UNCHANGED flowVars

AgGenerate(op, n) ==
    /\ agStatus = "ok"
    /\ agHist.draws + n <= MaxDraws
    /\ LET r == NextValues(ag, lehmer, n, agHist.prevSeed)
       IN  /\ ag' = r.g
           /\ agOut' = [op |-> op,
                        bytes |-> CASE op = "Mac"  -> MacBytes(r.values)
                                    [] op = "IPv4" -> IPv4Bytes(r.values)
                                    [] op = "IPv6" -> IPv6Bytes(r.values)]
           /\ agHist' = [draws |-> agHist.draws + n,
                         reseeds |-> agHist.reseeds + r.reseeds,
                         prevSeed |-> r.prevSeed]
    /\ UNCHANGED <<lehmer, agStatus, agSeed>>
    /\ UNCHANGED flowVars

GenerateMac == AgGenerate("Mac", 2)
GenerateIPv4 == AgGenerate("IPv4", 1)
GenerateIPv6 == AgGenerate("IPv6", 4)

-----------------------------------------------------------------------------
(* Types of the flow generator                                              *)

Unknown == "Unknown"
Forward == "Forward"
Reverse == "Reverse"

Timeval(sec, usec) == [sec |-> sec, usec |-> usec]

\* Timeval::operator<
TvLess(a, b) == a.sec < b.sec \/ (a.sec = b.sec /\ a.usec < b.usec)
TvLeq(a, b) == ~TvLess(b, a)

\* a default-constructed Packet (packet plan)
NewPacket ==
    [direction |-> Unknown, timestamp |-> Timeval(0, 0), size |-> 0,
     isFinished |-> FALSE, layers |-> <<>>]

Unset == -1

NoProfile ==
    [fwdPackets |-> 0, revPackets |-> 0, fwdBytes |-> 0, revBytes |-> 0,
     tsFirst |-> Timeval(0, 0), tsLast |-> Timeval(0, 0),
     l3Proto |-> Unknown, l4Proto |-> Unknown, hasIps |-> FALSE]

NoSizeGen ==
    [numPkts |-> 0, numBytes |-> 0, values |-> <<>>, assignedPkts |-> 0,
     assignedBytes |-> 0]

NoLocals == [phase |-> "idle"]

NoEncaps == [called |-> FALSE, layers |-> <<>>]

\* What the last Generate() call was asked for, saw and did, and what the last
\* GetValueExact() call found and was asked for.
NoGenHist ==
    [calls |-> 0, desiredPkts |-> 0, desiredBytes |-> 0, observed |-> {}, minDiff |-> 0,
     attempts |-> 0, replaced |-> 0, maxReplaced |-> 0, zeroDraw |-> FALSE,
     installed |-> "none", pool |-> <<>>, last |-> <<>>, atCall |-> NoSizeGen,
     taken |-> 0, emptyAt |-> Unset, exact |-> [called |-> FALSE]]

\* the flow generator's variables while only AddressGenerators is exercised
FlowIdle ==
    /\ profile = NoProfile
    /\ config = [variants |-> <<>>]
    /\ icmpLayer = "none"
    /\ pc = "idle"
    /\ flowError = "none"
    /\ layerStack = <<>>
    /\ packets = <<>>
    /\ emitted = <<>>
    /\ throws = 0
    /\ rngStream = <<>>
    /\ rngPos = 0
    /\ enginePerm = <<>>
    /\ fwdGen = NoSizeGen
    /\ revGen = NoSizeGen
    /\ genDir = Forward
    /\ gl = NoLocals
    /\ idx = 0
    /\ run = 1
    /\ planned = <<>>
    /\ pins = <<>>
    /\ encaps = NoEncaps
    /\ hookLog = <<>>
    /\ gh = NoGenHist

U32(v) == [hi |-> 0, low |-> v]

\* seeds handed to the constructor: both ends of the valid range, their
\* neighbours, and values with bit 31 set
SeedInputs ==
    { U32(v) : v \in {0, 1, 2, 3, 7, 44488, 44489, 65536, 1000000007,
                      2147483645, 2147483646, 2147483647} }
    \cup { [hi |-> 1, low |-> v] : v \in {0, 1, 2147483647} }

AgInit ==
    /\ lehmer = [m |-> Modulus, a |-> Multiplier]
    /\ agSeed \in SeedInputs
    /\ ag = NoGen
    /\ agStatus = "none"
    /\ agOut = NoOut
    /\ agHist = NoHist
    /\ FlowIdle

AgSmallInit ==
    /\ lehmer \in SmallLehmers
    /\ agSeed \in { U32(v) : v \in 0..lehmer.m } \cup { [hi |-> 1, low |-> 0] }
    /\ ag = NoGen
    /\ agStatus = "none"
    /\ agOut = NoOut
    /\ agHist = NoHist
    /\ FlowIdle

AgNext ==
    \/ AgConstruct
    \/ GenerateMac
    \/ GenerateIPv4
    \/ GenerateIPv6

SpecAddr == AgInit /\ [][AgNext]_vars

SpecAddrSmall == AgSmallInit /\ [][AgNext]_vars

-----------------------------------------------------------------------------
(* Properties of AddressGenerators                                          *)

\* the value a big-endian byte sequence encodes
RECURSIVE BigEndian(_)
BigEndian(bytes) ==
    IF bytes = <<>> THEN 0
    ELSE BigEndian(SubSeq(bytes, 1, Len(bytes) - 1)) * 256 + bytes[Len(bytes)]

\* x advanced by n Lehmer steps
RECURSIVE LehmerPow(_, _, _)
LehmerPow(x, n, p) == IF n = 0 THEN x ELSE LehmerPow(LehmerStep(x, p), n - 1, p)

SeedInRange(seed) == seed.hi = 0 /\ 1 <= seed.low /\ seed.low <= 2147483646

FirstIPv4 == agStatus = "ok" /\ agHist.draws = 1 /\ agOut.op = "IPv4"

\* C8 as stated: the first GenerateIPv4() returns the big-endian bytes of
\* one Lehmer step from the seed (seed 1 gives 48271 = 0.0.188.143).
C8_FirstIPv4IsOneStepFromSeed ==
    FirstIPv4 => BigEndian(agOut.bytes) = LehmerStep(agSeed.low, lehmer)

\* C8 amended: the first GenerateIPv4() returns the big-endian bytes of two
\* Lehmer steps from the seed, (s * 48271^2) mod (2^31-1): the constructor's
\* NextSeed() takes the first step; seed 1 gives 182605794 = 10.226.87.226.
C8_FirstIPv4IsTwoStepsFromSeed ==
    FirstIPv4 =>
        /\ BigEndian(agOut.bytes) = LehmerStep(LehmerStep(agSeed.low, lehmer), lehmer)
        /\ agSeed = U32(1) => agOut.bytes = <<10, 226, 87, 226>>

C8_Witness_SeedOne ==
    FirstIPv4 /\ agSeed = U32(1) /\ BigEndian(agOut.bytes) = 182605794

\* draws made from the current stream (since the last NextSeed)
SinceSeed == agHist.draws - agHist.reseeds * (lehmer.m - 1)

\* C9: the generator reseeds exactly once per modulus-1 draws: the draw that
\* follows modulus-1 draws of a stream advances seedState by one Lehmer step
\* (to a value other than the previous seedState), restarts state from it and
\* restarts the capacity counter at modulus-1.
C9_ReseedOncePerPeriod ==
    agStatus = "ok" =>
        /\ agHist.reseeds = IF agHist.draws = 0 THEN 0
                            ELSE (agHist.draws - 1) \div (lehmer.m - 1)
        /\ ag.capacity = (lehmer.m - 1) - SinceSeed
        /\ ag.state = LehmerPow(ag.seedState, SinceSeed, lehmer)
        /\ agHist.reseeds > 0 =>
              /\ ag.seedState = LehmerStep(agHist.prevSeed, lehmer)
              /\ ag.seedState # agHist.prevSeed

C9_Witness_ReseededTwice == agStatus = "ok" /\ agHist.reseeds = 2

-----------------------------------------------------------------------------
(* Flow::MakeIcmpLayer                                                      *)

\* sizeof of the PcapPlusPlus header structs
ETHER_HDR_SIZE == 14
ICMP_HDR_SIZE == 4
ICMPV6_HDR_SIZE == 4
IPV4_HDR_SIZE == 20
IPV6_HDR_SIZE == 40
UDP_HDR_SIZE == 8
ICMP_UNREACH_PKT_SIZE == ICMP_HDR_SIZE + IPV4_HDR_SIZE + UDP_HDR_SIZE
ICMPV6_UNREACH_PKT_SIZE == ICMPV6_HDR_SIZE + 4 + IPV6_HDR_SIZE + UDP_HDR_SIZE

\* bytesPerPkt = (_fwdBytes + _revBytes) / (_fwdPackets + _revPackets):
\* a division of two uint64_t, converted to double afterwards
BytesPerPktExact(p) ==
    [num |-> p.fwdBytes + p.revBytes, den |-> p.fwdPackets + p.revPackets]
BytesPerPkt(p) ==
    IF p.fwdPackets + p.revPackets > 0
    THEN [num |-> (p.fwdBytes + p.revBytes) \div (p.fwdPackets + p.revPackets), den |-> 1]
    ELSE [num |-> 0, den |-> 1]

\* bytesPerPkt <= 1.10 * size
SmallPacketsUpToDouble(bpp, size) == 10 * bpp.num <= 22 * size * bpp.den
SmallPackets(bpp, size) == 10 * bpp.num <= 11 * size * bpp.den

\* fwdRevRatioDiff <= 0.2, fwdRevRatioDiff = 1.0 - (min / max), or 1.0 for no packets
RatioDiffSmall(p) ==
    /\ p.fwdPackets + p.revPackets > 0
    /\ 5 * Min(p.fwdPackets, p.revPackets) >= 4 * Max(p.fwdPackets, p.revPackets)

MakeIcmpLayer(p, l3Proto) ==
    LET bytesPerPkt == BytesPerPkt(p)
        few == p.fwdPackets <= 3 \/ p.revPackets <= 3
    IN  IF l3Proto = "Ipv4"
        THEN IF few /\ SmallPackets(bytesPerPkt, ICMP_UNREACH_PKT_SIZE) THEN "IcmpRandom"
             ELSE IF RatioDiffSmall(p) THEN "IcmpEcho"
             ELSE IF SmallPackets(bytesPerPkt, ICMP_UNREACH_PKT_SIZE) THEN "IcmpRandom"
             ELSE "IcmpEcho"
        ELSE IF few /\ SmallPackets(bytesPerPkt, ICMPV6_UNREACH_PKT_SIZE) THEN "Icmpv6Random"
             ELSE IF RatioDiffSmall(p) THEN "Icmpv6Echo"
             ELSE IF SmallPackets(bytesPerPkt, ICMPV6_UNREACH_PKT_SIZE) THEN "Icmpv6Random"
             ELSE "Icmpv6Echo"

IcmpMaxPkts == 5

\* byte counts around the thresholds 1.10 * 32 and 1.10 * 56 per packet
IcmpByteInputs == {0, 35, 36, 70, 71, 105, 106, 141, 176, 177, 200, 246, 247, 309, 400}

IcmpProfileInputs ==
    { [NoProfile EXCEPT !.fwdPackets = pf, !.revPackets = pr, !.fwdBytes = bf,
                        !.revBytes = br, !.l3Proto = l3,
                        !.l4Proto = IF l3 = "Ipv4" THEN "Icmp" ELSE "Icmpv6"] :
        pf \in 0..IcmpMaxPkts, pr \in 0..IcmpMaxPkts, bf \in IcmpByteInputs,
        br \in {0, 1, 200}, l3 \in {"Ipv4", "Ipv6"} }

IcmpInit ==
    /\ lehmer = [m |-> Modulus, a |-> Multiplier]
    /\ agSeed = U32(1)
    /\ ag = NoGen
    /\ agStatus = "none"
    /\ agOut = NoOut
    /\ agHist = NoHist
    /\ profile \in IcmpProfileInputs
    /\ config = [variants |-> <<>>]
    /\ icmpLayer = "none"
    /\ pc = "idle"
    /\ flowError = "none"
    /\ layerStack = <<>>
    /\ packets = <<>>
    /\ emitted = <<>>
    /\ throws = 0
    /\ rngStream = <<>>
    /\ rngPos = 0
    /\ enginePerm = <<>>
    /\ fwdGen = NoSizeGen
    /\ revGen = NoSizeGen
    /\ genDir = Forward
    /\ gl = NoLocals
    /\ idx = 0
    /\ run = 1
    /\ planned = <<>>
    /\ pins = <<>>
    /\ encaps = NoEncaps
    /\ hookLog = <<>>
    /\ gh = NoGenHist

\* a call of MakeIcmpLayer on a flow holding the profile's counts
CallMakeIcmpLayer ==
    /\ pc = "idle"
    /\ icmpLayer = "none"
    /\ icmpLayer' = MakeIcmpLayer(profile, profile.l3Proto)
    /\ UNCHANGED <<profile, config, pc, flowError, layerStack, packets, emitted, throws,
                   rngStream, rngPos, enginePerm, fwdGen, revGen, genDir, gl, idx, run,
                   planned, pins, encaps, hookLog, gh>>
    /\ UNCHANGED agVars

SpecIcmp == IcmpInit /\ [][CallMakeIcmpLayer]_vars

IsUnreachKind(layer) == layer \in {"IcmpRandom", "Icmpv6Random"}

UnreachSize(l3Proto) ==
    IF l3Proto = "Ipv4" THEN ICMP_UNREACH_PKT_SIZE ELSE ICMPV6_UNREACH_PKT_SIZE

\* C10 as stated: the unreachable-style layer is chosen exactly when
\* ((Pf <= 3 or Pr <= 3) and bpp <= 1.10*S) or (ratioDiff > 0.2 and
\* bpp <= 1.10*S), bpp being the exact quotient (Bf+Br)/(Pf+Pr) (0 for no packets).
C10_UnreachIffExactQuotientSmall ==
    icmpLayer # "none" =>
        LET p == profile
            small == \/ p.fwdPackets + p.revPackets = 0
                     \/ SmallPackets(BytesPerPktExact(p), UnreachSize(p.l3Proto))
        IN  IsUnreachKind(icmpLayer) <=>
                \/ (p.fwdPackets <= 3 \/ p.revPackets <= 3) /\ small
                \/ ~RatioDiffSmall(p) /\ small

-----------------------------------------------------------------------------
(* RandomGenerator (the shared, seeded generator) and std::shuffle          *)

\* The generator's output for a given seed is a fixed sequence.  The model
\* takes it as a periodic sequence of StreamLen raw values in 0..RawMax whose
\* cells are chosen when first read and kept from then on.
StreamLen == 3
RawMax == 1

RawAt(stream, pos) == stream[pos % StreamLen]

\* the streams that extend `stream` so that the next n reads are defined
RECURSIVE StreamFills(_, _, _)
StreamFills(stream, pos, n) ==
    IF n = 0 THEN {stream}
    ELSE LET c == pos % StreamLen
         IN  IF stream[c] # Unset THEN StreamFills(stream, pos + 1, n - 1)
             ELSE UNION { StreamFills([stream EXCEPT ![c] = v], pos + 1, n - 1) :
                          v \in 0..RawMax }

\* RandomDouble(lo, hi) as the fraction r / (RawMax + 1) of hi - lo, in [lo, hi)
\* RandomUInt(lo, hi), both ends included
RandomUInt(lo, hi, r) == lo + (r * (hi - lo)) \div RawMax

Perms(n) == { f \in [1..n -> 1..n] : \A i, j \in 1..n : f[i] = f[j] => i = j }

\* the permutations a default-seeded engine may shuffle n elements by: the
\* one it was seen to use, or any if it has not shuffled n elements yet
ShuffleChoices(n) ==
    IF n < 2 THEN { [i \in 1..n |-> i] }
    ELSE IF enginePerm[n] # <<>> THEN { enginePerm[n] }
    ELSE Perms(n)

Remember(n, perm) == IF n < 2 THEN enginePerm ELSE [enginePerm EXCEPT ![n] = perm]

Permute(seq, perm) == [i \in 1..Len(seq) |-> seq[perm[i]]]

-----------------------------------------------------------------------------
(* Flow::Flow                                                               *)

\* ChooseEncaps(variants); r is the raw value behind RandomDouble(),
\* probabilities are held in percent
RECURSIVE ChooseFrom(_, _, _, _)
ChooseFrom(variants, i, accum, r) ==
    IF i > Len(variants) THEN <<>>
    ELSE LET acc == accum + variants[i].probability
         IN  IF r * 100 <= acc * (RawMax + 1) THEN variants[i].layers
             ELSE ChooseFrom(variants, i + 1, acc, r)

ChooseEncaps(variants, r) ==
    IF variants = <<>> THEN <<>> ELSE ChooseFrom(variants, 1, 0, r)

EncapsLayer(layer) ==
    [kind |-> IF layer.type = "vlan" THEN "Vlan" ELSE "Mpls", a |-> layer.id, b |-> 0]

\* switch (profile._l3Proto)
L3Error(p) == IF p.l3Proto = Unknown THEN "Unknown L3 protocol" ELSE "none"

\* switch (profile._l4Proto)
L4ErrorNoIcmpCheck(p) ==
    CASE p.l4Proto = Unknown -> "Unknown L4 protocol"
      [] p.l4Proto = "Icmpv6" /\ p.l3Proto # "Ipv6" ->
            "L4 protocol is ICMPv6 but L3 protocol is not IPv6"
      [] OTHER -> "none"
L4Error(p) ==
    CASE p.l4Proto = Unknown -> "Unknown L4 protocol"
      [] p.l4Proto = "Icmp" /\ p.l3Proto # "Ipv4" ->
            "L4 protocol is ICMP but L3 protocol is not IPv4"
      [] p.l4Proto = "Icmpv6" /\ p.l3Proto # "Ipv6" ->
            "L4 protocol is ICMPv6 but L3 protocol is not IPv6"
      [] OTHER -> "none"

L4Layer(p) ==
    CASE p.l4Proto = "Tcp" -> [kind |-> "Tcp", a |-> 1024, b |-> 80]
      [] p.l4Proto = "Udp" -> [kind |-> "Udp", a |-> 1024, b |-> 80]
      [] OTHER -> [kind |-> MakeIcmpLayer(p, p.l3Proto), a |-> 0, b |-> 0]

\* the layers of the constructor, from the drawn MAC and IP address values
LayersFrom(p, cfg, r, macs, ips) ==
    LET eth    == [kind |-> "Ethernet", a |-> MacBytes(SubSeq(macs.values, 1, 2)),
                   b |-> MacBytes(SubSeq(macs.values, 3, 4))]
        chosen == ChooseEncaps(cfg.variants, r)
        l2     == <<eth>> \o [i \in 1..Len(chosen) |-> EncapsLayer(chosen[i])]
        perIp  == IF p.l3Proto = "Ipv4" THEN 1 ELSE 4
        addr(k) == IF p.hasIps THEN <<k>>
                   ELSE LET vs == SubSeq(ips.values, (k - 1) * perIp + 1, k * perIp)
                        IN  IF p.l3Proto = "Ipv4" THEN IPv4Bytes(vs) ELSE IPv6Bytes(vs)
        l3     == [kind |-> IF p.l3Proto = "Ipv4" THEN "IPv4" ELSE "IPv6",
                   a |-> addr(1), b |-> addr(2)]
        payload == IF p.l4Proto \in {"Tcp", "Udp"}
                   THEN << [kind |-> "Payload", a |-> 0, b |-> 0] >> ELSE <<>>
    IN  IF L3Error(p) # "none"
        THEN [error |-> L3Error(p), layers |-> l2, g |-> macs.g]
        ELSE IF L4Error(p) # "none"
        THEN [error |-> L4Error(p), layers |-> l2 \o <<l3>>, g |-> ips.g]
        ELSE [error |-> "none", layers |-> l2 \o <<l3, L4Layer(p)>> \o payload,
              g |-> ips.g]

\* the constructor up to the call of Plan(): [error, layers, g]
BuildLayerStack(p, cfg, g, r) ==
    LET ipDraws == IF p.hasIps THEN 0 ELSE IF p.l3Proto = "Ipv4" THEN 2 ELSE 8
    IN  The({ The({ LayersFrom(p, cfg, r, macs, ips) :
                    ips \in { NextValues(macs.g, lehmer, ipDraws, 0) } }) :
              macs \in { NextValues(g, lehmer, 4, 0) } })

\* Flow::Flow up to and including _packets.resize() at the start of Plan()
FlowConstruct ==
    /\ pc = "new"
    /\ LET n == IF config.variants = <<>> THEN 0 ELSE 1
       IN  \E s \in StreamFills(rngStream, rngPos, n) :
             LET r == BuildLayerStack(profile, config, ag, RawAt(s, rngPos))
             IN  /\ rngStream' = s
                 /\ rngPos' = (rngPos + n) % StreamLen
                 /\ ag' = r.g
                 /\ layerStack' = r.layers
                 /\ flowError' = r.error
                 /\ IF r.error # "none"
                    THEN /\ pc' = "failed"
                         /\ packets' = packets
                    ELSE /\ pc' = "PlanFlow"
                         /\ packets' = [i \in 1..(profile.fwdPackets + profile.revPackets)
                                           |-> NewPacket]
    /\ UNCHANGED <<profile, config, icmpLayer, emitted, throws, enginePerm, run, planned,
                   pins, encaps, hookLog>>
    /\ UNCHANGED genVars
    /\ UNCHANGED <<lehmer, agStatus, agSeed, agOut, agHist>>

-----------------------------------------------------------------------------
(* Flow::Plan: PlanFlow of the layers and PlanPacketsDirections             *)

IcmpKinds == {"IcmpRandom", "IcmpEcho", "Icmpv6Random", "Icmpv6Echo"}

\* Layer::PlanFlow of one layer at position i of the stack: every layer
\* adds its parameters to every plan; the unreachable-style ICMP layers
\* commit the structural size of their packets; ICMP layers may pin directions
LayerPlanFlow(layer, i, pkts) ==
    [k \in 1..Len(pkts) |->
        LET pk == [pkts[k] EXCEPT !.layers = Append(@, i)]
        IN  IF layer.kind \notin IcmpKinds THEN pk
            ELSE [pk EXCEPT
                    !.direction = IF pins[k] # Unknown THEN pins[k] ELSE @,
                    !.isFinished = IF IsUnreachKind(layer.kind) THEN TRUE ELSE @,
                    !.size = IF IsUnreachKind(layer.kind)
                             THEN @ + UnreachSize(profile.l3Proto) ELSE @]]

\* for (auto& layer : _layerStack) layer->PlanFlow(*this);
RECURSIVE PlanFlowFrom(_, _, _)
PlanFlowFrom(layers, i, pkts) ==
    IF i > Len(layers) THEN pkts
    ELSE PlanFlowFrom(layers, i + 1, LayerPlanFlow(layers[i], i, pkts))

\* Layer::PostPlanFlow and Layer::PlanExtra: the base class does nothing
LayerPostPlanFlow(layer, pkts) == pkts
LayerPlanExtra(layer, pkts) == pkts

RECURSIVE PostPlanFlowFrom(_, _, _)
PostPlanFlowFrom(layers, i, pkts) ==
    IF i > Len(layers) THEN pkts
    ELSE PostPlanFlowFrom(layers, i + 1, LayerPostPlanFlow(layers[i], pkts))

RECURSIVE PlanExtraFrom(_, _, _)
PlanExtraFrom(layers, i, pkts) ==
    IF i > Len(layers) THEN pkts
    ELSE PlanExtraFrom(layers, i + 1, LayerPlanExtra(layers[i], pkts))

CountDirection(pkts, d) == Cardinality({ k \in 1..Len(pkts) : pkts[k].direction = d })

\* PacketFlowSpan::GetAvailableDirections: the counts not yet pinned
GetAvailableDirections(pkts, p) ==
    [fwd |-> p.fwdPackets - CountDirection(pkts, Forward),
     rev |-> p.revPackets - CountDirection(pkts, Reverse)]

\* directions.insert(end, fwd, Forward); directions.insert(end, rev, Reverse)
DirectionTokensAllForward(fwd, rev) == [i \in 1..(fwd + rev) |-> Forward]
DirectionTokens(fwd, rev) ==
    [i \in 1..(fwd + rev) |-> IF i <= fwd THEN Forward ELSE Reverse]

\* if (packet._direction == Unknown) packet._direction = directions[id++];
RECURSIVE AssignDirections(_, _, _, _)
AssignDirections(pkts, k, directions, id) ==
    IF k > Len(pkts) THEN pkts
    ELSE IF pkts[k].direction = Unknown /\ id <= Len(directions)
    THEN AssignDirections([pkts EXCEPT ![k].direction = directions[id]], k + 1,
                          directions, id + 1)
    ELSE AssignDirections(pkts, k + 1, directions, id)

\* One entry of the order Plan() works in: a layer hook with the layer's position in
\* the stack, or a step of the flow itself (layer 0).
HookCallsBackwards(hook, layers) ==
    [i \in 1..Len(layers) |-> [hook |-> hook, layer |-> Len(layers) + 1 - i]]
HookCalls(hook, layers) == [i \in 1..Len(layers) |-> [hook |-> hook, layer |-> i]]

FlowStep(name) == <<[hook |-> name, layer |-> 0]>>

FlowUnchangedInputs == UNCHANGED <<profile, config, pins, icmpLayer, encaps, run, lehmer, ag,
                                   agStatus, agSeed, agOut, agHist>>

PlanFlowLayers ==
    /\ pc = "PlanFlow"
    /\ packets' = PlanFlowFrom(layerStack, 1, packets)
    /\ hookLog' = hookLog \o HookCalls("PlanFlow", layerStack)
    /\ pc' = "Directions"
    /\ UNCHANGED <<flowError, layerStack, emitted, throws, rngStream, rngPos, enginePerm,
                   planned>>
    /\ UNCHANGED genVars
    /\ FlowUnchangedInputs

PlanPacketsDirections ==
    /\ pc = "Directions"
    /\ LET avail  == GetAvailableDirections(packets, profile)
           tokens == DirectionTokens(avail.fwd, avail.rev)
       IN  \E perm \in ShuffleChoices(Len(tokens)) :
             /\ enginePerm' = Remember(Len(tokens), perm)
             /\ packets' = AssignDirections(packets, 1, Permute(tokens, perm), 1)
    /\ hookLog' = hookLog \o FlowStep("PlanPacketsDirections")
    /\ pc' = "Sizes"
    /\ UNCHANGED <<flowError, layerStack, emitted, throws, rngStream, rngPos, planned>>
    /\ UNCHANGED genVars
    /\ FlowUnchangedInputs

PostPlanFlowLayers ==
    /\ pc = "PostPlanFlow"
    /\ packets' = PostPlanFlowFrom(layerStack, 1, packets)
    /\ hookLog' = hookLog \o HookCalls("PostPlanFlow", layerStack)
    /\ pc' = "PlanExtra"
    /\ UNCHANGED <<flowError, layerStack, emitted, throws, rngStream, rngPos, enginePerm,
                   planned>>
    /\ UNCHANGED genVars
    /\ FlowUnchangedInputs

PlanExtraLayers ==
    /\ pc = "PlanExtra"
    /\ packets' = PlanExtraFrom(layerStack, 1, packets)
    /\ hookLog' = hookLog \o HookCalls("PlanExtra", layerStack)
    /\ pc' = "Timestamps"
    /\ UNCHANGED <<flowError, layerStack, emitted, throws, rngStream, rngPos, enginePerm,
                   planned>>
    /\ UNCHANGED genVars
    /\ FlowUnchangedInputs

-----------------------------------------------------------------------------
(* Flow::PlanPacketsTimestamps                                              *)

\* values of a uniform_int_distribution(lo, hi) the model draws: both ends
\* and the middle (every value when hi - lo <= 2)
UniformSample(lo, hi) == {lo, hi, (lo + hi) \div 2}

\* the microseconds drawn for a drawn second: firstUsecDis, lastUsecDis or usecDis
UsecDraws(sec, tsFirst, tsLast) ==
    LET same == tsFirst.sec = tsLast.sec
    IN  IF sec = tsFirst.sec
        THEN UniformSample(tsFirst.usec, IF same THEN tsLast.usec ELSE 999999)
        ELSE IF sec = tsLast.sec
        THEN UniformSample(IF same THEN tsFirst.usec ELSE 0, tsLast.usec)
        ELSE UniformSample(0, 999999)

\* the timestamps one iteration of the generation loop may produce
TimestampDraws(tsFirst, tsLast) ==
    UNION { { Timeval(sec, usec) : usec \in UsecDraws(sec, tsFirst, tsLast) } :
            sec \in tsFirst.sec..tsLast.sec }

\* std::sort(timestamps.begin(), timestamps.end(), a < b)
RECURSIVE InsertTimestamp(_, _)
InsertTimestamp(sorted, t) ==
    IF sorted = <<>> THEN <<t>>
    ELSE IF TvLess(t, Head(sorted)) THEN <<t>> \o sorted
    ELSE <<Head(sorted)>> \o InsertTimestamp(Tail(sorted), t)

RECURSIVE SortFrom(_, _, _)
SortFrom(seq, i, sorted) ==
    IF i > Len(seq) THEN sorted ELSE SortFrom(seq, i + 1, InsertTimestamp(sorted, seq[i]))

SortTimestampsNoSort(timestamps) == timestamps
SortTimestamps(timestamps) == SortFrom(timestamps, 1, <<>>)

PlanPacketsTimestamps ==
    /\ pc = "Timestamps"
    /\ LET timestampsToGen == IF Len(packets) > 2 THEN Len(packets) - 2 ELSE 0
       IN  \E gen \in [1..timestampsToGen ->
                          TimestampDraws(profile.tsFirst, profile.tsLast)] :
             LET timestamps == SortTimestamps(<<profile.tsFirst, profile.tsLast>> \o gen)
             IN  packets' = [k \in 1..Len(packets) |->
                                [packets[k] EXCEPT !.timestamp = timestamps[k]]]
    /\ planned' = [planned EXCEPT ![run] = packets']
    /\ hookLog' = hookLog \o FlowStep("PlanPacketsTimestamps")
    /\ pc' = "Planned"
    /\ UNCHANGED <<flowError, layerStack, emitted, throws, rngStream, rngPos, enginePerm>>
    /\ UNCHANGED genVars
    /\ FlowUnchangedInputs

-----------------------------------------------------------------------------
(* Flow::GenerateNextPacket and Flow::IsFinished                            *)

IsFinished == packets = <<>>

\* if (_packets.empty()) throw
NoMorePacketsTooEarly(pkts) == Len(pkts) <= 1
NoMorePackets(pkts) == pkts = <<>>

\* _packets.erase(_packets.begin())
ErasePlanAtBack(pkts) == SubSeq(pkts, 1, Len(pkts) - 1)
ErasePlan(pkts) == Tail(pkts)

MaxThrows == 2

GenerateNextPacket ==
    /\ pc = "Planned"
    /\ \/ /\ NoMorePackets(packets)
          /\ throws < MaxThrows
          /\ throws' = throws + 1
          /\ UNCHANGED <<packets, emitted>>
       \/ /\ ~NoMorePackets(packets)
          /\ LET packetPlan == packets[1]
             IN  emitted' = Append(emitted, [direction |-> packetPlan.direction,
                                             time |-> packetPlan.timestamp])
          /\ packets' = ErasePlan(packets)
          /\ UNCHANGED throws
    /\ UNCHANGED <<pc, flowError, layerStack, rngStream, rngPos, enginePerm, planned,
                   hookLog>>
    /\ UNCHANGED genVars
    /\ FlowUnchangedInputs

-----------------------------------------------------------------------------
(* PacketSizeGeneratorSlow                                                  *)

\* attempts of the value generation loop (MAX_ATTEMPTS = 2000 in the source)
MaxAttempts == 2
MIN_DIFF == 50
GET_EXACT_MAX_DISTANCE == 1000

\* AdjustPacketSizesToL3: both ends of every interval less the L2 header
AdjustPacketSizesToL3(intervals) ==
    [i \in 1..Len(intervals) |->
        [intervals[i] EXCEPT !.from = @ - ETHER_HDR_SIZE, !.to = @ - ETHER_HDR_SIZE]]

\* probabilities are held in 1/10000
PACKET_SIZE_PROBABILITIES ==
    AdjustPacketSizesToL3(<<
        [from |-> 64,   to |-> 79,   probability |-> 2824],
        [from |-> 80,   to |-> 159,  probability |-> 730],
        [from |-> 160,  to |-> 319,  probability |-> 115],
        [from |-> 320,  to |-> 639,  probability |-> 120],
        [from |-> 640,  to |-> 1279, probability |-> 92],
        [from |-> 1280, to |-> 1500, probability |-> 6119] >>)

RECURSIVE SumProbabilitiesTo(_, _)
SumProbabilitiesTo(intervals, n) ==
    IF n = 0 THEN 0 ELSE SumProbabilitiesTo(intervals, n - 1) + intervals[n].probability

SumProbabilities(intervals) == SumProbabilitiesTo(intervals, Len(intervals))

\* GenerateRandomValue: genVal = intervalProbSum * r1 / (RawMax + 1); the first
\* interval whose running sum reaches genVal gives a uniform value, else 0
RECURSIVE FirstReaching(_, _, _, _)
FirstReaching(intervals, i, intervalProbSum, r1) ==
    IF i > Len(intervals) THEN 0
    ELSE IF intervalProbSum * r1 <= SumProbabilitiesTo(intervals, i) * (RawMax + 1) THEN i
    ELSE FirstReaching(intervals, i + 1, intervalProbSum, r1)

GenerateRandomValue(intervals, intervalProbSum, r1, r2) ==
    LET i == FirstReaching(intervals, 1, intervalProbSum, r1)
    IN  IF i = 0 THEN 0 ELSE RandomUInt(intervals[i].from, intervals[i].to, r2)

\* PacketSizeGenerator::Construct(intervals, numPkts, numBytes)
Construct(intervals, numPkts, numBytes) ==
    [intervals |-> intervals, numPkts |-> numPkts, numBytes |-> numBytes,
     values |-> <<>>, assignedPkts |-> 0, assignedBytes |-> 0]

AbsDiff(a, b) == IF a > b THEN a - b ELSE b - a

\* the scan of GetValueExact over [i, end) (0-based slots)
RECURSIVE ClosestFrom(_, _, _, _, _, _)
ClosestFrom(values, value, i, end, closest, closestDiff) ==
    IF i >= end THEN closest
    ELSE LET diff == AbsDiff(values[i + 1], value)
         IN  IF diff < closestDiff
             THEN ClosestFrom(values, value, i + 1, end, i, diff)
             ELSE ClosestFrom(values, value, i + 1, end, closest, closestDiff)

\* the scan window [start, end) over n slots; r is the raw draw of the start
WindowStart(n, r, w) == IF n <= w THEN 0 ELSE RandomUInt(0, n - w, r)
WindowEnd(n, r, w) == IF n <= w THEN n ELSE WindowStart(n, r, w) + w

\* GetValueExact(value) with scan window w; r is the raw draw of the window start
GetValueExact(g, value, r, w) ==
    IF Len(g.values) = 0
    THEN [g EXCEPT !.assignedPkts = @ + 1, !.assignedBytes = @ + value]
    ELSE LET n       == Len(g.values)
             start   == WindowStart(n, r, w)
             end     == WindowEnd(n, r, w)
             closest == ClosestFrom(g.values, value, start, end, 0, value)
             swapped == [g.values EXCEPT ![closest + 1] = g.values[n]]
         IN  [g EXCEPT !.values = SubSeq(swapped, 1, n - 1),
                       !.assignedPkts = @ + 1, !.assignedBytes = @ + value]

RemPktsIgnoringAssigned(g) == g.numPkts
RemPkts(g) == IF g.numPkts >= g.assignedPkts THEN g.numPkts - g.assignedPkts ELSE 0
RemBytes(g) == IF g.numBytes >= g.assignedBytes THEN g.numBytes - g.assignedBytes ELSE 0

\* _values.resize(n): cut, or fill with zeros
Resize(values, n) == [i \in 1..n |-> IF i <= Len(values) THEN values[i] ELSE 0]

InBand(l, sum) == sum >= l.targetMin /\ sum <= l.targetMax

\* the biasing of one attempt: intervals on the wrong side of the average
\* lose their probability
BiasIntervals(intervals, l) ==
    LET avgValue == l.valuesSum \div l.desiredPkts
    IN  [i \in 1..Len(intervals) |->
            LET interAvg == intervals[i].from \div 2 + intervals[i].to \div 2
            IN  IF \/ l.valuesSum < l.targetMin /\ interAvg < avgValue
                   \/ l.valuesSum > l.targetMax /\ interAvg > avgValue
                THEN [intervals[i] EXCEPT !.probability = 0]
                ELSE intervals[i]]

\* numAttempts--
AttemptsNotCounted(numAttempts) == numAttempts
AttemptsLeft(numAttempts) == numAttempts - 1

\* if (diff < bestDiff): in the sweep unless it broke, and at the end of the
\* attempt whether it broke or not
TracksBestUnlessBroke(broke, diff, bestDiff) == ~broke /\ diff < bestDiff
TracksBest(broke, diff, bestDiff) == diff < bestDiff

CurGen == IF genDir = Forward THEN fwdGen ELSE revGen

SetCurGen(g) ==
    /\ fwdGen' = IF genDir = Forward THEN g ELSE fwdGen
    /\ revGen' = IF genDir = Reverse THEN g ELSE revGen

\* the generator of the forward direction returns to the call for the reverse
\* one, that one to the second pass over the plans
GenerateReturn ==
    /\ pc' = IF genDir = Forward THEN "PlanRemaining" ELSE "Assign"
    /\ genDir' = Reverse
    /\ idx' = 1
    /\ gl' = NoLocals

SizesUnchanged == /\ UNCHANGED <<flowError, layerStack, emitted, throws, planned>>
                  /\ FlowUnchangedInputs

\* the two Construct calls and the first pass: finished plans commit their size
RECURSIVE CommitFinished(_, _, _)
CommitFinished(pkts, k, gens) ==
    IF k > Len(pkts) THEN gens
    ELSE IF ~pkts[k].isFinished THEN CommitFinished(pkts, k + 1, gens)
    ELSE IF pkts[k].direction = Forward
    THEN CommitFinished(pkts, k + 1,
             [gens EXCEPT !.fwd = GetValueExact(@, pkts[k].size, 0, GET_EXACT_MAX_DISTANCE)])
    ELSE CommitFinished(pkts, k + 1,
             [gens EXCEPT !.rev = GetValueExact(@, pkts[k].size, 0, GET_EXACT_MAX_DISTANCE)])

PlanPacketsSizesBegin ==
    /\ pc = "Sizes"
    /\ LET gens == CommitFinished(packets, 1,
                     [fwd |-> Construct(PACKET_SIZE_PROBABILITIES, profile.fwdPackets,
                                        profile.fwdBytes),
                      rev |-> Construct(PACKET_SIZE_PROBABILITIES, profile.revPackets,
                                        profile.revBytes)])
       IN  /\ fwdGen' = gens.fwd
           /\ revGen' = gens.rev
    /\ genDir' = Forward
    /\ pc' = "PlanRemaining"
    /\ UNCHANGED <<packets, gl, idx, gh, rngStream, rngPos, enginePerm, hookLog>>
    /\ SizesUnchanged

\* PlanRemaining and Generate up to the first loop
PlanRemaining ==
    /\ pc = "PlanRemaining"
    /\ LET g            == CurGen
           desiredPkts  == RemPkts(g)
           desiredBytes == RemBytes(g)
           values       == Resize(g.values, desiredPkts)
           called       == [NoGenHist EXCEPT !.calls = gh.calls + 1,
                                         !.desiredPkts = desiredPkts,
                                         !.desiredBytes = desiredBytes,
                                         !.atCall = g,
                                         !.exact = gh.exact]
       IN  IF desiredPkts = 0 \/ desiredBytes = 0
           THEN /\ SetCurGen([g EXCEPT !.values = values])
                /\ gh' = [called EXCEPT !.installed = "nothing", !.pool = values]
                /\ GenerateReturn
           ELSE IF desiredPkts = 1
           THEN /\ SetCurGen([g EXCEPT !.values = [values EXCEPT ![1] = desiredBytes]])
                /\ gh' = [called EXCEPT !.installed = "single",
                                         !.pool = [values EXCEPT ![1] = desiredBytes]]
                /\ GenerateReturn
           ELSE /\ SetCurGen([g EXCEPT !.values = values])
                /\ gh' = called
                /\ gl' = [desiredPkts |-> desiredPkts, desiredBytes |-> desiredBytes,
                          intervals |-> g.intervals, origIntervals |-> g.intervals,
                          probSum |-> SumProbabilities(g.intervals), valuesSum |-> 0,
                          targetMin |-> 0, targetMax |-> 0, numAttempts |-> 0,
                          bestDiff |-> 0, bestValues |-> <<>>]
                /\ pc' = "GenFill"
                /\ idx' = 1
                /\ UNCHANGED genDir
    /\ UNCHANGED <<packets, rngStream, rngPos, enginePerm, hookLog>>
    /\ SizesUnchanged

\* for (auto& value : _values) { value = GenerateRandomValue(...); valuesSum += value; }
\* and, after the last one, the targets and the best values so far
GenFill ==
    /\ pc = "GenFill"
    /\ \E s \in StreamFills(rngStream, rngPos, 2) :
         LET g       == CurGen
             value   == GenerateRandomValue(gl.intervals, gl.probSum,
                                            RawAt(s, rngPos), RawAt(s, rngPos + 1))
             values  == [g.values EXCEPT ![idx] = value]
             sum     == gl.valuesSum + value
             maxDiff == Max((gl.desiredBytes) \div 100, MIN_DIFF)
         IN  /\ rngStream' = s
             /\ rngPos' = (rngPos + 2) % StreamLen
             /\ SetCurGen([g EXCEPT !.values = values])
             /\ IF idx < gl.desiredPkts
                THEN /\ gl' = [gl EXCEPT !.valuesSum = sum]
                     /\ idx' = idx + 1
                     /\ UNCHANGED <<pc, gh>>
                ELSE /\ gl' = [gl EXCEPT
                                 !.valuesSum = sum,
                                 !.targetMin = IF maxDiff < gl.desiredBytes
                                               THEN gl.desiredBytes - maxDiff ELSE 0,
                                 !.targetMax = gl.desiredBytes + maxDiff,
                                 !.numAttempts = MaxAttempts,
                                 !.bestDiff = AbsDiff(sum, gl.desiredBytes),
                                 !.bestValues = values]
                     /\ gh' = [gh EXCEPT !.observed = {values},
                                          !.minDiff = AbsDiff(sum, gl.desiredBytes)]
                     /\ idx' = 1
                     /\ pc' = "GenLoop"
    /\ UNCHANGED <<packets, genDir, enginePerm, hookLog>>
    /\ SizesUnchanged

\* the head of the while loop and the biasing of the intervals
GenLoop ==
    /\ pc = "GenLoop"
    /\ IF ~InBand(gl, gl.valuesSum) /\ gl.numAttempts > 0
       THEN LET intervals == BiasIntervals(gl.intervals, gl)
            IN  /\ gl' = [gl EXCEPT !.numAttempts = AttemptsLeft(@),
                                    !.origIntervals = gl.intervals,
                                    !.intervals = intervals,
                                    !.probSum = SumProbabilities(intervals)]
                /\ gh' = [gh EXCEPT !.attempts = @ + 1, !.replaced = 0]
                /\ pc' = "GenSweep"
       ELSE /\ pc' = "GenFinal"
            /\ UNCHANGED <<gl, gh>>
    /\ idx' = 1
    /\ UNCHANGED <<packets, fwdGen, revGen, genDir, rngStream, rngPos, enginePerm, hookLog>>
    /\ SizesUnchanged

\* one replacement of the sweep; after the break or the last value, the end
\* of the attempt
GenSweep ==
    /\ pc = "GenSweep"
    /\ \E s \in StreamFills(rngStream, rngPos, 2) :
         LET g        == CurGen
             newValue == GenerateRandomValue(gl.intervals, gl.probSum,
                                             RawAt(s, rngPos), RawAt(s, rngPos + 1))
             drawn    == FirstReaching(gl.intervals, 1, gl.probSum, RawAt(s, rngPos))
             sum      == gl.valuesSum - g.values[idx] + newValue
             values   == [g.values EXCEPT ![idx] = newValue]
             diff     == AbsDiff(sum, gl.desiredBytes)
             broke    == InBand(gl, sum)
             better   == TracksBest(broke, diff, gl.bestDiff)
             last     == idx = gl.desiredPkts
         IN  /\ rngStream' = s
             /\ rngPos' = (rngPos + 2) % StreamLen
             /\ SetCurGen([g EXCEPT !.values = values])
             /\ gl' = [gl EXCEPT
                         !.valuesSum = sum,
                         !.bestValues = IF better THEN values ELSE @,
                         !.bestDiff = IF better THEN diff ELSE @,
                         !.intervals = IF broke \/ last THEN gl.origIntervals ELSE @]
             /\ gh' = [gh EXCEPT
                         !.observed = @ \cup {values},
                         !.minDiff = Min(@, diff),
                         !.replaced = @ + 1,
                         !.maxReplaced = Max(@, gh.replaced + 1),
                         !.zeroDraw = @ \/ (drawn # 0 /\ gl.intervals[drawn].probability = 0)]
             /\ IF broke \/ last
                THEN pc' = "GenLoop" /\ idx' = 1
                ELSE UNCHANGED pc /\ idx' = idx + 1
    /\ UNCHANGED <<packets, genDir, enginePerm, hookLog>>
    /\ SizesUnchanged

\* the fallback to one byte per packet, or the shuffled best values
GenFinal ==
    /\ pc = "GenFinal"
    /\ LET g == CurGen
       IN  IF 5 * gl.bestDiff > gl.desiredBytes
           THEN /\ SetCurGen([g EXCEPT !.values =
                                 [i \in 1..Len(g.values) |-> gl.desiredBytes \div gl.desiredBytes]])
                /\ gh' = [gh EXCEPT !.installed = "uniform", !.last = g.values,
                                     !.pool = [i \in 1..Len(g.values) |-> 1]]
                /\ UNCHANGED enginePerm
           ELSE \E perm \in ShuffleChoices(Len(gl.bestValues)) :
                  /\ enginePerm' = Remember(Len(gl.bestValues), perm)
                  /\ SetCurGen([g EXCEPT !.values = Permute(gl.bestValues, perm)])
                  /\ gh' = [gh EXCEPT !.installed = "best", !.last = g.values,
                                       !.pool = Permute(gl.bestValues, perm)]
    /\ GenerateReturn
    /\ UNCHANGED <<packets, rngStream, rngPos, hookLog>>
    /\ SizesUnchanged

\* GetValue: the last pooled value, or a fresh draw when none is left
GetValue(g, r1, r2) ==
    LET value == IF g.values # <<>> THEN g.values[Len(g.values)]
                 ELSE GenerateRandomValue(g.intervals, SumProbabilities(g.intervals), r1, r2)
    IN  [g |-> [g EXCEPT !.values = IF g.values # <<>>
                                    THEN SubSeq(g.values, 1, Len(g.values) - 1) ELSE @,
                         !.assignedPkts = @ + 1, !.assignedBytes = @ + value],
         value |-> value]

\* the second pass over the plans, one plan per step, then PrintReport
AssignSizes ==
    /\ pc = "Assign"
    /\ IF idx > Len(packets)
       THEN /\ pc' = "PostPlanFlow"
            /\ hookLog' = hookLog \o FlowStep("PlanPacketsSizes")
            /\ UNCHANGED <<packets, fwdGen, revGen, idx, rngStream, rngPos>>
       ELSE IF packets[idx].isFinished
       THEN /\ idx' = idx + 1
            /\ UNCHANGED <<pc, packets, fwdGen, revGen, rngStream, rngPos, hookLog>>
       ELSE LET fwd   == packets[idx].direction = Forward
                g     == IF fwd THEN fwdGen ELSE revGen
                draws == IF g.values # <<>> THEN 0 ELSE 2
            IN  \E s \in StreamFills(rngStream, rngPos, draws) :
                  LET got == GetValue(g, RawAt(s, rngPos), RawAt(s, rngPos + 1))
                  IN  /\ rngStream' = s
                      /\ rngPos' = (rngPos + draws) % StreamLen
                      /\ packets' = [packets EXCEPT ![idx].size = Max(@, got.value)]
                      /\ fwdGen' = IF fwd THEN got.g ELSE fwdGen
                      /\ revGen' = IF fwd THEN revGen ELSE got.g
                      /\ idx' = idx + 1
                      /\ UNCHANGED <<pc, hookLog>>
    /\ UNCHANGED <<genDir, gl, gh, enginePerm>>
    /\ SizesUnchanged

-----------------------------------------------------------------------------
(* The flow generator: construction, planning, draining, and a second       *)
(* construction from the same inputs                                        *)

\* packets per direction and per flow
MaxPkts == 2
MaxTotal == 3

PacketCounts ==
    { c \in (0..MaxPkts) \X (0..MaxPkts) : c[1] + c[2] <= MaxTotal }

\* (first, last) timestamps of the profile, first <= last
TsPairs ==
    { <<Timeval(1, 5), Timeval(1, 5)>>, <<Timeval(1, 5), Timeval(1, 7)>>,
      <<Timeval(1, 999999), Timeval(2, 0)>>, <<Timeval(1, 5), Timeval(3, 2)>> }

L3Protos == {Unknown, "Ipv4", "Ipv6"}
L4Protos == {Unknown, "Tcp", "Udp", "Icmp", "Icmpv6"}

FlowProfile(c, bf, br, ts, l3, l4, ips) ==
    [fwdPackets |-> c[1], revPackets |-> c[2], fwdBytes |-> bf, revBytes |-> br,
     tsFirst |-> ts[1], tsLast |-> ts[2], l3Proto |-> l3, l4Proto |-> l4, hasIps |-> ips]

\* every protocol combination, on one shape of flow
ProtocolProfiles ==
    { FlowProfile(<<1, 1>>, 100, 100, <<Timeval(1, 5), Timeval(1, 7)>>, l3, l4, ips) :
        l3 \in L3Protos, l4 \in L4Protos, ips \in BOOLEAN }

\* every packet count, TCP over IPv4
CountProfiles ==
    { FlowProfile(c, 150, 100, <<Timeval(1, 5), Timeval(1, 7)>>, "Ipv4", "Tcp", FALSE) :
        c \in PacketCounts }

\* every time span, on the largest flow (no bytes: the sizes take no draws)
TimeProfiles ==
    { FlowProfile(<<MaxPkts, MaxTotal - MaxPkts>>, 0, 0, ts, "Ipv4", "Udp", FALSE) :
        ts \in TsPairs }

\* byte counts that end the size generation early, in the band, and in the fallback
ByteProfiles ==
    { FlowProfile(<<2, 1>>, bf, br, <<Timeval(1, 5), Timeval(1, 5)>>, "Ipv6", "Udp",
                  FALSE) : bf \in {0, 120, 200, 2600}, br \in {0, 120} }

\* ICMP flows of small and of large packets
IcmpFlowProfiles ==
    { FlowProfile(c, 0, br, <<Timeval(1, 5), Timeval(1, 7)>>, "Ipv4", "Icmp", FALSE) :
        c \in { <<1, 1>>, <<MaxPkts, MaxTotal - MaxPkts>> }, br \in {60, 200} }

\* the directions the ICMP layer pins, within the counts of the profile
PinChoices(p) ==
    LET n == p.fwdPackets + p.revPackets
    IN  IF p.l4Proto \notin {"Icmp", "Icmpv6"}
        THEN { [k \in 1..n |-> Unknown] }
        ELSE { f \in [1..n -> {Unknown, Forward, Reverse}] :
                 /\ Cardinality({ k \in 1..n : f[k] = Forward }) <= p.fwdPackets
                 /\ Cardinality({ k \in 1..n : f[k] = Reverse }) <= p.revPackets }

EncapsConfigs ==
    { [variants |-> <<>>],
      [variants |-> << [layers |-> << [type |-> "vlan", id |-> 10] >>, probability |-> 30],
                       [layers |-> << [type |-> "mpls", id |-> 20] >>, probability |-> 50] >>] }

FlowInit ==
    /\ lehmer = [m |-> Modulus, a |-> Multiplier]
    /\ agSeed = U32(1)
    /\ ag = NextSeed([NoGen EXCEPT !.seedState = agSeed.low], lehmer)
    /\ agStatus = "ok"
    /\ agOut = NoOut
    /\ agHist = NoHist
    /\ \/ profile \in ProtocolProfiles /\ config \in EncapsConfigs
       \/ profile \in CountProfiles \cup TimeProfiles \cup ByteProfiles \cup IcmpFlowProfiles
          /\ config = [variants |-> <<>>]
    /\ pins \in PinChoices(profile)
    /\ icmpLayer = "none"
    /\ pc = "new"
    /\ flowError = "none"
    /\ layerStack = <<>>
    /\ packets = <<>>
    /\ emitted = <<>>
    /\ throws = 0
    /\ rngStream = [c \in 0..(StreamLen - 1) |-> Unset]
    /\ rngPos = 0
    /\ enginePerm = [n \in 0..MaxTotal |-> <<>>]
    /\ fwdGen = NoSizeGen
    /\ revGen = NoSizeGen
    /\ genDir = Forward
    /\ gl = NoLocals
    /\ idx = 0
    /\ run = 1
    /\ planned = <<<<>>, <<>>>>
    /\ encaps = NoEncaps
    /\ hookLog = <<>>
    /\ gh = NoGenHist

\* the same profile, configuration and seeds given to a second construction:
\* the seeded generators restart, the default-seeded engine is what it was
Rerun ==
    /\ pc = "Planned"
    /\ run = 1
    /\ emitted = <<>>
    /\ throws = 0
    /\ run' = 2
    /\ pc' = "new"
    /\ ag' = NextSeed([NoGen EXCEPT !.seedState = agSeed.low], lehmer)
    /\ rngPos' = 0
    /\ packets' = <<>>
    /\ layerStack' = <<>>
    /\ fwdGen' = NoSizeGen
    /\ revGen' = NoSizeGen
    /\ genDir' = Forward
    /\ gl' = NoLocals
    /\ idx' = 0
    /\ gh' = NoGenHist
    /\ hookLog' = <<>>
    /\ UNCHANGED <<profile, config, pins, icmpLayer, encaps, flowError, emitted, throws,
                   rngStream, enginePerm, planned, lehmer, agStatus, agSeed, agOut, agHist>>

Next ==
    \/ FlowConstruct
    \/ PlanFlowLayers
    \/ PlanPacketsDirections
    \/ PlanPacketsSizesBegin
    \/ PlanRemaining
    \/ GenFill
    \/ GenLoop
    \/ GenSweep
    \/ GenFinal
    \/ AssignSizes
    \/ PostPlanFlowLayers
    \/ PlanExtraLayers
    \/ PlanPacketsTimestamps
    \/ GenerateNextPacket

\* one flow: constructed, planned and drained
Spec == FlowInit /\ [][Next]_vars

NextTwice ==
    \/ FlowConstruct
    \/ PlanFlowLayers
    \/ PlanPacketsDirections
    \/ PlanPacketsSizesBegin
    \/ PlanRemaining
    \/ GenFill
    \/ GenLoop
    \/ GenSweep
    \/ GenFinal
    \/ AssignSizes
    \/ PostPlanFlowLayers
    \/ PlanExtraLayers
    \/ PlanPacketsTimestamps
    \/ Rerun

\* one flow constructed and planned twice from the same inputs
SpecTwice == FlowInit /\ [][NextTwice]_vars

-----------------------------------------------------------------------------
(* Properties of planning and draining                                      *)

\* the plan list Plan() has produced, or is producing, in this run
AllPlans == IF pc = "Planned" THEN planned[run] ELSE packets

DirectionsAssigned ==
    pc \in {"Sizes", "PlanRemaining", "GenFill", "GenLoop", "GenSweep", "GenFinal",
            "Assign", "PostPlanFlow", "PlanExtra", "Timestamps", "Planned"}

NumPackets == profile.fwdPackets + profile.revPackets

\* C1: two constructions from the same profile, configuration and seeds end
\* with the same plan list (timestamps, directions, sizes, layers of every plan)
C1_SameInputsSamePlans ==
    (run = 2 /\ pc = "Planned") => planned[2] = planned[1]

\* C2: the planned timestamps never decrease along the list, lie between the
\* profile's first and last timestamp, and with two or more packets the first
\* plan has the first timestamp and the last plan the last timestamp
C2_TimestampsSortedWithinSpan ==
    pc = "Planned" =>
        LET pl == planned[run]
            n  == Len(pl)
        IN  /\ \A k \in 1..(n - 1) : TvLeq(pl[k].timestamp, pl[k + 1].timestamp)
            /\ \A k \in 1..n : /\ TvLeq(profile.tsFirst, pl[k].timestamp)
                               /\ TvLeq(pl[k].timestamp, profile.tsLast)
            /\ n >= 2 => /\ pl[1].timestamp = profile.tsFirst
                         /\ pl[n].timestamp = profile.tsLast

C2_Witness_MiddleTimestamp ==
    /\ pc = "Planned"
    /\ Len(planned[run]) = 3
    /\ TvLess(planned[run][1].timestamp, planned[run][2].timestamp)
    /\ TvLess(planned[run][2].timestamp, planned[run][3].timestamp)

\* C3: once directions are assigned no plan has direction Unknown, and for a
\* profile without ICMP exactly fwdPackets plans are Forward and revPackets Reverse
C3_DirectionCountsMatchProfile ==
    DirectionsAssigned =>
        /\ CountDirection(AllPlans, Unknown) = 0
        /\ profile.l4Proto \in {"Tcp", "Udp"} =>
              /\ CountDirection(AllPlans, Forward) = profile.fwdPackets
              /\ CountDirection(AllPlans, Reverse) = profile.revPackets

C3_Witness_MixedDirections ==
    /\ pc = "Sizes"
    /\ profile.l4Proto = "Tcp"
    /\ profile.fwdPackets = 2
    /\ profile.revPackets = 1
    /\ packets[1].direction = Reverse

DirectionAndTime(pkts) ==
    [k \in 1..Len(pkts) |-> [direction |-> pkts[k].direction, time |-> pkts[k].timestamp]]

\* C4: the packets handed out so far, followed by the plans still in the
\* list, are the planned list in its order (each call returns the front
\* plan's direction and timestamp and removes that plan only), and the
\* timestamps handed out never decrease
C4_PacketsLeaveInPlanOrder ==
    pc = "Planned" =>
        /\ emitted \o DirectionAndTime(packets) = DirectionAndTime(planned[run])
        /\ \A k \in 1..(Len(emitted) - 1) : TvLeq(emitted[k].time, emitted[k + 1].time)

C4_Witness_TwoHandedOut ==
    /\ pc = "Planned"
    /\ Len(emitted) = 2
    /\ Len(packets) = 1
    /\ TvLess(emitted[1].time, emitted[2].time)
    /\ emitted[1].direction # emitted[2].direction

\* C5: exactly fwdPackets + revPackets calls of GenerateNextPacket succeed;
\* IsFinished is false until the last of them and true from then on; a call
\* after that raises and leaves the (empty) list as it is
C5_ExactlyAllPacketsThenThrows ==
    pc = "Planned" =>
        /\ Len(emitted) + Len(packets) = NumPackets
        /\ IsFinished <=> Len(emitted) = NumPackets
        /\ throws > 0 => (Len(emitted) = NumPackets /\ packets = <<>>)

C5_Witness_ThrowsAfterLast ==
    /\ pc = "Planned"
    /\ NumPackets = 3
    /\ Len(emitted) = 3
    /\ throws = 2

UnsupportedProtocols(p) ==
    \/ p.l3Proto = Unknown
    \/ p.l4Proto = Unknown
    \/ p.l4Proto = "Icmp" /\ p.l3Proto # "Ipv4"
    \/ p.l4Proto = "Icmpv6" /\ p.l3Proto # "Ipv6"

\* C6: for ICMP over anything but IPv4, ICMPv6 over anything but IPv6, or an
\* Unknown L3 or L4 protocol the constructor fails with an error before
\* Plan(): no plan is ever created and no packet handed out
C6_UnsupportedProtocolsFailConstruction ==
    UnsupportedProtocols(profile) =>
        /\ pc \in {"new", "failed"}
        /\ pc = "failed" => flowError # "none"
        /\ packets = <<>>
        /\ emitted = <<>>
        /\ planned[run] = <<>>

C6_Witness_IcmpOverIPv6 ==
    /\ pc = "failed"
    /\ profile.l4Proto = "Icmp"
    /\ profile.l3Proto = "Ipv6"
    /\ flowError = "L4 protocol is ICMP but L3 protocol is not IPv4"

-----------------------------------------------------------------------------
(* The ICMP scenario Pf=3, Pr=3, Bf=200, Br=200 over IPv4                   *)

IcmpScenario ==
    /\ profile.fwdPackets = 3
    /\ profile.revPackets = 3
    /\ profile.fwdBytes = 200
    /\ profile.revBytes = 200
    /\ profile.l3Proto = "Ipv4"
    /\ profile.l4Proto = "Icmp"

\* C11 as stated: for Pf=3, Pr=3, Bf=200, Br=200, L3=IPv4, L4=ICMP the
\* heuristic selects IcmpRandom, the unreachable-style layer
C11_ScenarioSelectsIcmpRandom ==
    (IcmpScenario /\ icmpLayer # "none") => icmpLayer = "IcmpRandom"

\* C11, amended: for that profile the heuristic selects IcmpEcho: 66 bytes
\* per packet are more than 1.10 * 32 = 35.2, and the packet counts of the two
\* directions are equal
C11_ScenarioSelectsIcmpEcho ==
    (IcmpScenario /\ icmpLayer # "none") =>
        /\ icmpLayer = "IcmpEcho"
        /\ ~SmallPackets(BytesPerPkt(profile), ICMP_UNREACH_PKT_SIZE)
        /\ RatioDiffSmall(profile)

C11_Witness_ScenarioDecided ==
    /\ IcmpScenario
    /\ icmpLayer = "IcmpEcho"
    /\ BytesPerPkt(profile).num = 66

-----------------------------------------------------------------------------
(* ChooseEncaps over lists of encapsulation variants                        *)

\* variants of one encapsulation list
MaxVariants == 2

\* probabilities of a variant in percent, as the configuration gives them
VariantProbabilities == {0, 10, 20, 30, 50, 70, 100}

Variant(k, p) ==
    [layers |-> << [type |-> IF k = 1 THEN "vlan" ELSE "mpls", id |-> 10 * k] >>,
     probability |-> p]

VariantLists ==
    UNION { { [k \in 1..n |-> Variant(k, ps[k])] : ps \in [1..n -> VariantProbabilities] } :
            n \in 0..MaxVariants }

\* no flow, no address generator and no size generator yet; the process-wide
\* random generator has drawn nothing
UnitIdle ==
    /\ lehmer = [m |-> Modulus, a |-> Multiplier]
    /\ agSeed = U32(1)
    /\ ag = NoGen
    /\ agStatus = "none"
    /\ agOut = NoOut
    /\ agHist = NoHist
    /\ profile = NoProfile
    /\ icmpLayer = "none"
    /\ flowError = "none"
    /\ layerStack = <<>>
    /\ packets = <<>>
    /\ emitted = <<>>
    /\ throws = 0
    /\ rngStream = [c \in 0..(StreamLen - 1) |-> Unset]
    /\ rngPos = 0
    /\ enginePerm = [n \in 0..MaxTotal |-> <<>>]
    /\ fwdGen = NoSizeGen
    /\ gl = NoLocals
    /\ idx = 0
    /\ run = 1
    /\ planned = <<>>
    /\ pins = <<>>
    /\ encaps = NoEncaps
    /\ hookLog = <<>>
    /\ gh = NoGenHist

EncapsInit ==
    /\ UnitIdle
    /\ pc = "idle"
    /\ revGen = NoSizeGen
    /\ genDir = Forward
    /\ config \in { [variants |-> l] : l \in VariantLists }

\* const auto& layers = ChooseEncaps(config.GetEncapsulation().GetVariants())
CallChooseEncaps ==
    /\ ~encaps.called
    /\ \E s \in StreamFills(rngStream, rngPos, IF config.variants = <<>> THEN 0 ELSE 1) :
         /\ rngStream' = s
         /\ rngPos' = (rngPos + (IF config.variants = <<>> THEN 0 ELSE 1)) % StreamLen
         /\ encaps' = [called |-> TRUE,
                       layers |-> ChooseEncaps(config.variants, RawAt(s, rngPos))]
    /\ UNCHANGED <<profile, config, icmpLayer, pc, flowError, layerStack, packets, emitted,
                   throws, enginePerm, run, planned, pins, hookLog>>
    /\ UNCHANGED genVars
    /\ UNCHANGED agVars

SpecEncaps == EncapsInit /\ [][CallChooseEncaps]_vars

\* C12 as stated: an empty list gives no layers, and for every non-empty list and
\* every draw the layers returned are those of one of the listed variants.
C12_SomeListedVariantIsReturned ==
    encaps.called =>
        /\ config.variants = <<>> => encaps.layers = <<>>
        /\ config.variants # <<>> =>
             \E i \in 1..Len(config.variants) : encaps.layers = config.variants[i].layers

-----------------------------------------------------------------------------
(* PacketSizeGeneratorSlow alone: reservations, PlanRemaining, GetValue     *)

\* the scan window of GetValueExact (GET_EXACT_MAX_DISTANCE = 1000 in the source)
ExactWindow == 2
\* calls of GetValue and GetValueExact on one generator
MaxAssigned == 3
\* intervals as the generator holds them, probabilities in 1/10000
GenIntervals ==
    { << [from |-> 1, to |-> 4, probability |-> 3000],
         [from |-> 100, to |-> 120, probability |-> 7000] >>,
      << [from |-> 100, to |-> 120, probability |-> 10000] >> }

\* byte budgets: none, below the intervals, reachable by two values, just out of
\* their reach, and far out of reach
GenBytes == {0, 5, 230, 300, 400}

\* the values GetValueExact is asked for
ExactValues == {0, 10, 110}

GenInit ==
    /\ UnitIdle
    /\ config = [variants |-> <<>>]
    /\ pc = "PlanRemaining"
    /\ genDir = Reverse
    /\ revGen \in { Construct(iv, n, b) : iv \in GenIntervals, n \in 0..MaxTotal, b \in GenBytes }

\* no Generate() is running
GenQuiet == pc \in {"PlanRemaining", "Assign"}

GenUnchanged ==
    /\ UNCHANGED <<packets, genDir, gl, idx, enginePerm, hookLog, pc>>
    /\ UNCHANGED fwdGen
    /\ SizesUnchanged

\* a caller reserves the value v; reservations come before PlanRemaining()
CallGetValueExact ==
    /\ GenQuiet
    /\ gh.calls = 0
    /\ revGen.assignedPkts < MaxAssigned
    /\ \E v \in ExactValues :
         LET n     == Len(revGen.values)
             draws == IF n > ExactWindow THEN 1 ELSE 0
         IN  \E s \in StreamFills(rngStream, rngPos, draws) :
               /\ rngStream' = s
               /\ rngPos' = (rngPos + draws) % StreamLen
               /\ revGen' = GetValueExact(revGen, v, RawAt(s, rngPos), ExactWindow)
               /\ gh' = [gh EXCEPT
                           !.taken = @ + 1,
                           !.exact =
                            [called |-> TRUE, before |-> revGen, value |-> v,
                             after |-> revGen',
                             start |-> WindowStart(n, RawAt(s, rngPos), ExactWindow),
                             end |-> WindowEnd(n, RawAt(s, rngPos), ExactWindow)]]
    /\ GenUnchanged

\* a caller takes the next value
CallGetValue ==
    /\ pc = "Assign"
    /\ revGen.assignedPkts < MaxAssigned
    /\ LET draws == IF revGen.values # <<>> THEN 0 ELSE 2
       IN  \E s \in StreamFills(rngStream, rngPos, draws) :
             /\ rngStream' = s
             /\ rngPos' = (rngPos + draws) % StreamLen
             /\ revGen' = GetValue(revGen, RawAt(s, rngPos), RawAt(s, rngPos + 1)).g
    /\ gh' = [gh EXCEPT !.taken = @ + 1,
                        !.emptyAt = IF @ = Unset /\ revGen.values = <<>> THEN gh.taken ELSE @]
    /\ GenUnchanged

GenNext ==
    \/ CallGetValueExact
    \/ PlanRemaining
    \/ GenFill
    \/ GenLoop
    \/ GenSweep
    \/ GenFinal
    \/ CallGetValue

SpecGen == GenInit /\ [][GenNext]_vars

\* GetValueExact on a pool as a Generate() may have left it
PoolValues == {1, 4, 100, 120}

Pools == UNION { [1..n -> PoolValues] : n \in 0..MaxTotal }

ExactInit ==
    /\ UnitIdle
    /\ config = [variants |-> <<>>]
    /\ pc = "Assign"
    /\ genDir = Reverse
    /\ \E iv \in GenIntervals, pool \in Pools :
         revGen = [Construct(iv, Len(pool), 230) EXCEPT !.values = pool]

SpecExact == ExactInit /\ [][CallGetValueExact]_vars

-----------------------------------------------------------------------------
(* Properties of PacketSizeGeneratorSlow                                    *)

RECURSIVE SumSeq(_)
SumSeq(values) == IF values = <<>> THEN 0 ELSE Head(values) + SumSeq(Tail(values))

InSomeInterval(v, intervals) ==
    \E i \in 1..Len(intervals) : intervals[i].from <= v /\ v <= intervals[i].to

IsPermutationOf(a, b) ==
    /\ Len(a) = Len(b)
    /\ \E f \in Perms(Len(a)) : \A i \in 1..Len(a) : a[i] = b[f[i]]

\* Generate() has returned, and gh tells what it was asked for and left behind
GenerateReturned == gh.installed # "none"

\* C13 as stated: Generate(N, B) leaves the pool empty whenever N = 0 or B = 0,
\* and leaves exactly the single value B when N = 1 and B > 0.
C13_EarlyReturnPools ==
    GenerateReturned =>
        /\ (gh.desiredPkts = 0 \/ gh.desiredBytes = 0) => gh.pool = <<>>
        /\ (gh.desiredPkts = 1 /\ gh.desiredBytes > 0) => gh.pool = <<gh.desiredBytes>>

\* C14 as stated: for every intervals, N and B > 0, a pool that Generate(N, B)
\* leaves with |B - sum| / B <= 0.2 holds only values that lie inside one of the
\* intervals.
C14_CloseSumsStayInsideIntervals ==
    (GenerateReturned /\ gh.desiredBytes > 0
        /\ 5 * AbsDiff(SumSeq(gh.pool), gh.desiredBytes) <= gh.desiredBytes) =>
    \A k \in 1..Len(gh.pool) : InSomeInterval(gh.pool[k], gh.atCall.intervals)

\* C15: for N >= 2 and B > 0, with d the least |S - B| over the sums after the
\* initial fill and after every single replacement: if d / B > 0.2 the pool is N
\* ones, otherwise it is a permutation of an observed vector whose sum differs
\* from B by exactly d.
C15_BestObservedVectorInstalled ==
    (GenerateReturned /\ gh.desiredPkts >= 2 /\ gh.desiredBytes > 0) =>
        /\ \A v \in gh.observed : AbsDiff(SumSeq(v), gh.desiredBytes) >= gh.minDiff
        /\ IF 5 * gh.minDiff > gh.desiredBytes
           THEN gh.pool = [i \in 1..gh.desiredPkts |-> 1]
           ELSE \E v \in gh.observed :
                  /\ AbsDiff(SumSeq(v), gh.desiredBytes) = gh.minDiff
                  /\ IsPermutationOf(gh.pool, v)

\* the best vector came out of the refinement loop, not out of the initial fill
C15_Witness_BestFromLaterAttempt ==
    /\ gh.installed = "best"
    /\ gh.attempts = MaxAttempts
    /\ gh.minDiff > 0
    /\ Cardinality(gh.observed) > 2

\* the slot GetValueExact took out of the pool `before`, leaving `after`
TookSlot(before, after, i) ==
    LET n == Len(before)
    IN  after = SubSeq([before EXCEPT ![i + 1] = before[n]], 1, n - 1)

\* C16 as stated: on a non-empty pool GetValueExact(v) removes exactly one
\* element, one that is closest to v among the slots of the window, and never a
\* slot outside the window; on any pool it adds 1 to assignedPkts and v to
\* assignedBytes and leaves the other elements in the pool.
C16_ExactTakesClosestInWindow ==
    gh.exact.called =>
        LET before == gh.exact.before
            after  == gh.exact.after
            v      == gh.exact.value
            window == gh.exact.start .. (gh.exact.end - 1)
        IN  /\ after.assignedPkts = before.assignedPkts + 1
            /\ after.assignedBytes = before.assignedBytes + v
            /\ before.values = <<>> => after.values = <<>>
            /\ before.values # <<>> =>
                 \E i \in window :
                   /\ TookSlot(before.values, after.values, i)
                   /\ \A j \in window :
                        AbsDiff(before.values[i + 1], v) <= AbsDiff(before.values[j + 1], v)

\* C19 as stated: at the start of an attempt's sweep the intervals on the wrong
\* side of avg = floor(S / N) have probability zero, and no replacement of any
\* sweep was drawn from an interval whose probability was zero at the time.
C19_NoDrawFromZeroedInterval ==
    /\ (pc = "GenSweep" /\ idx = 1) =>
         \A i \in 1..Len(gl.intervals) :
           LET mid == gl.intervals[i].from \div 2 + gl.intervals[i].to \div 2
               avg == gl.valuesSum \div gl.desiredPkts
           IN  (\/ gl.valuesSum < gl.targetMin /\ mid < avg
                \/ gl.valuesSum > gl.targetMax /\ mid > avg)
               => gl.intervals[i].probability = 0
    /\ ~gh.zeroDraw


\* C17: PlanRemaining() asks Generate for exactly max(N - assignedPkts, 0) values
\* against max(B - assignedBytes, 0) bytes, whatever was reserved before, and
\* the pool then holds that many values; so a caller with exactly N plans, the
\* reserved ones included, finds a pool value for every unfinished plan: no
\* GetValue() meets an empty pool before that many values were taken.
C17_RemainderPlannedAfterReservations ==
    gh.calls > 0 =>
        /\ gh.desiredPkts = Max(gh.atCall.numPkts - gh.atCall.assignedPkts, 0)
        /\ gh.desiredBytes = Max(gh.atCall.numBytes - gh.atCall.assignedBytes, 0)
        /\ GenerateReturned =>
             /\ Len(gh.pool) = gh.desiredPkts
             /\ gh.emptyAt # Unset => gh.emptyAt >= gh.desiredPkts

\* one plan was reserved, the others have all taken their value from the pool
C17_Witness_PoolServedEveryPlan ==
    /\ GenerateReturned
    /\ gh.atCall.assignedPkts = 1
    /\ gh.atCall.numPkts = MaxTotal
    /\ gh.taken = gh.desiredPkts
    /\ revGen.assignedPkts = revGen.numPkts
    /\ gh.emptyAt = Unset


\* Generate() is sequential code: once called, each of its steps is taken
GenerateSteps == GenFill \/ GenLoop \/ GenSweep \/ GenFinal

SpecGenFair == SpecGen /\ WF_vars(GenerateSteps)

GenerateRunning == pc \in {"GenFill", "GenLoop", "GenSweep", "GenFinal"}

\* C20: Generate always terminates. No replacement is made while the running sum
\* is inside the band, at most MaxAttempts attempts are made (2000 in the
\* source), each of at most N replacements, and every call that entered the
\* loop returns with the best vector or the uniform fallback installed.
C20_GenerateTerminates ==
    /\ [](pc = "GenSweep" => ~InBand(gl, gl.valuesSum))
    /\ [](gh.attempts <= MaxAttempts /\ gh.maxReplaced <= gh.desiredPkts)
    /\ []((pc = "Assign" /\ gh.desiredPkts >= 2 /\ gh.desiredBytes > 0)
            => gh.installed \in {"best", "uniform"})
    /\ (GenerateRunning ~> (pc = "Assign" /\ GenerateReturned))

\* every attempt was used, each replaced every value, and a result is installed
C20_Witness_AllAttemptsUsed ==
    /\ pc = "Assign"
    /\ gh.attempts = MaxAttempts
    /\ gh.maxReplaced = gh.desiredPkts
    /\ gh.desiredPkts = MaxTotal
    /\ gh.installed = "uniform"

-----------------------------------------------------------------------------
(* The order of Plan()                                                      *)

\* the k-th step of a Plan() over n layers
PlanOrder(n, k) ==
    IF k <= n THEN [hook |-> "PlanFlow", layer |-> k]
    ELSE IF k = n + 1 THEN [hook |-> "PlanPacketsDirections", layer |-> 0]
    ELSE IF k = n + 2 THEN [hook |-> "PlanPacketsSizes", layer |-> 0]
    ELSE IF k <= 2 * n + 2 THEN [hook |-> "PostPlanFlow", layer |-> k - (n + 2)]
    ELSE IF k <= 3 * n + 2 THEN [hook |-> "PlanExtra", layer |-> k - (2 * n + 2)]
    ELSE [hook |-> "PlanPacketsTimestamps", layer |-> 0]

\* C18: Plan() runs its phases in a fixed order with no interleaving: PlanFlow on
\* every layer in stack order, then directions, then sizes, then PostPlanFlow on
\* every layer in stack order, then PlanExtra on every layer in stack order, then
\* timestamps; a planned flow has run them all.
C18_PlanPhasesInFixedOrder ==
    LET n == Len(layerStack)
    IN  /\ Len(hookLog) <= 3 * n + 3
        /\ \A k \in 1..Len(hookLog) : hookLog[k] = PlanOrder(n, k)
        /\ pc = "Planned" => Len(hookLog) = 3 * n + 3
        /\ (\E k \in 1..Len(hookLog) : hookLog[k].hook = "PostPlanFlow") =>
             \A j \in 1..Len(packets) : packets[j].direction # Unknown

\* a planned flow over a stack of four layers
C18_Witness_PlannedFourLayers ==
    /\ pc = "Planned"
    /\ Len(layerStack) = 4
    /\ Len(hookLog) = 15
    /\ packets # <<>>

-----------------------------------------------------------------------------
(* The target band and the fallback                                         *)

\* the refinement of the last Generate() stopped with the sum of its values
\* inside [B - maxDiff, B + maxDiff], maxDiff = max(0.01 * B, 50), clamped at 0
StoppedInBand ==
    LET B       == gh.desiredBytes
        maxDiff == Max(B \div 100, 50)
        S       == SumSeq(gh.last)
    IN  /\ GenerateReturned
        /\ gh.desiredPkts >= 2
        /\ B > 0
        /\ S >= Max(B - maxDiff, 0)
        /\ S <= B + maxDiff

\* C21 as stated: whenever the refinement of Generate(N, B), N >= 2 and B > 0,
\* stops with the running sum inside the target band, the installed pool is the
\* in-band vector, permuted, and not the all-ones fallback, for every B.
C21_InBandVectorInstalled ==
    StoppedInBand => gh.installed = "best" /\ IsPermutationOf(gh.pool, gh.last)

=============================================================================
